---- MODULE Spec2Model ----
(***************************************************************************)
(* Batch execution engine of the Repetitive-Task-Agent (app/tools.py,      *)
(* app/utils.py): execute_task_list, its background loop                   *)
(* _run_repetition_loop, check_task_status, the file tools of the sandbox  *)
(* and the JSON extraction helper.                                         *)
(*                                                                         *)
(* The status register is the tool_context.state dictionary: a partial     *)
(* map from keys to values that every run of the same user writes.         *)
(* Coroutines interleave only at await points, so one action is the code   *)
(* between two awaits.                                                     *)
(***************************************************************************)
EXTENDS Integers, Sequences, FiniteSets, TLC

\* ------------------------------------------------------------------ bounds
NumRuns == 2
MaxLen == 2
MaxElapsed == 1
MaxLoading == 1
MaxTorn == 2

Runs == 1..NumRuns
Items == {"a", "b"}
Basenames == {"out"}

RECURSIVE SeqsUpTo(_, _)
SeqsUpTo(S, n) ==
  IF n = 0 THEN {<<>>}
  ELSE LET shorter == SeqsUpTo(S, n - 1)
       IN shorter \cup {Append(s, x) : s \in {t \in shorter : Len(t) = n - 1}, x \in S}

WorkLists == SeqsUpTo(Items, MaxLen)

\* ------------------------------------------------- python values and dicts
\* load_artifact gives None when no artifact was saved: a value that is no
\* work list, since no item has that name.
NoArtifact == <<"no artifact">>
NoFile == [missing |-> TRUE]
Null == "NaN"

\* A python dict is an insertion-ordered sequence of <<key, value>> pairs.
EmptyDict == <<>>

DictKeys(d) == {d[i][1] : i \in 1..Len(d)}

DictGet(d, k, default) ==
  IF k \in DictKeys(d)
  THEN LET i == CHOOSE j \in 1..Len(d) : d[j][1] = k IN d[i][2]
  ELSE default

\* d[k] = v : replaces the value in place, or appends a new key.
RECURSIVE DictReplace(_, _, _)
DictReplace(d, k, v) ==
  IF d = <<>> THEN <<>>
  ELSE <<IF d[1][1] = k THEN <<k, v>> ELSE d[1]>> \o DictReplace(Tail(d), k, v)

\* Mutant of DictSet: d.setdefault(k, v), an existing key keeps its value.
DictSetDefault(d, k, v) ==
  IF k \in DictKeys(d) THEN d ELSE Append(d, <<k, v>>)

DictSet(d, k, v) ==
  IF k \in DictKeys(d) THEN DictReplace(d, k, v) ELSE Append(d, <<k, v>>)

\* ------------------------------------------------------ worker final output
\* A worker text is a sequence of chunks: the two code-fence markers (three
\* backquotes followed by json, and three backquotes alone), a blank, or a
\* chunk of other characters.  No concatenation of two or more of the
\* non-fence chunks below is valid JSON.
FenceJson == "<3 backquotes>json"
Fence == "<3 backquotes>"
Blank == " "

ObjText == "{\"name\": \"x\"}"
ObjWithOriginText == "{\"original_item\": \"z\", \"name\": \"x\"}"
EmptyObjText == "{}"
ArrayText == "[1]"
NullText == "null"
GarbageText == "oops"

\* json.loads on one chunk: the python value, or a JSONDecodeError.
DecodeError == [type |-> "JSONDecodeError"]
PyNone == [type |-> "NoneType"]
PyDict(d) == [type |-> "dict", value |-> d]
PyList(l) == [type |-> "list", value |-> l]

JsonValue(chunk) ==
  CASE chunk = ObjText -> PyDict(<< <<"name", "x">> >>)
    [] chunk = ObjWithOriginText -> PyDict(<< <<"original_item", "z">>, <<"name", "x">> >>)
    [] chunk = EmptyObjText -> PyDict(EmptyDict)
    [] chunk = ArrayText -> PyList(<<1>>)
    [] chunk = NullText -> PyNone
    [] OTHER -> DecodeError

\* str.replace(FenceJson, '').replace(Fence, '')
RECURSIVE RemoveFences(_)
RemoveFences(text) ==
  IF text = <<>> THEN <<>>
  ELSE IF text[1] \in {FenceJson, Fence} THEN RemoveFences(Tail(text))
  ELSE <<text[1]>> \o RemoveFences(Tail(text))

\* str.strip()
RECURSIVE LStrip(_)
LStrip(text) ==
  IF text # <<>> /\ text[1] = Blank THEN LStrip(Tail(text)) ELSE text

RECURSIVE RStrip(_)
RStrip(text) ==
  IF text # <<>> /\ text[Len(text)] = Blank
  THEN RStrip(SubSeq(text, 1, Len(text) - 1)) ELSE text

Strip(text) == RStrip(LStrip(text))

\* json.loads: exactly one JSON value, nothing else around it.
JsonLoads(text) ==
  IF Len(text) = 1 THEN JsonValue(text[1]) ELSE DecodeError

\* extract_json_from_model_output: the parsed value, or None on a decode error.
extract_json_from_model_output(model_output) ==
  LET cleaned_output == Strip(RemoveFences(model_output))
      json_object == JsonLoads(cleaned_output)
  IN IF json_object = DecodeError THEN PyNone ELSE json_object

\* python truth value of `if result:`
Truthy(v) ==
  CASE v.type = "NoneType" -> FALSE
    [] v.type = "dict" -> v.value # <<>>
    [] v.type = "list" -> v.value # <<>>
    [] OTHER -> TRUE

\* What runner.run gives the loop for one item: it raises, or it returns the
\* list of events, of which only the text of the last one is used.
WorkerRaises == [kind |-> "raise"]
NoEvents == [kind |-> "events", n |-> 0, text |-> <<>>]
LastText(t) == [kind |-> "events", n |-> 1, text |-> t]

WorkerTexts ==
  { <<FenceJson, ObjText, Fence>>,
    <<Blank, ObjWithOriginText, Blank>>,
    <<EmptyObjText>>,
    <<ArrayText>>,
    <<NullText>>,
    <<GarbageText>>,
    <<ObjText, Fence, ObjText>>,
    <<>> }

WorkerOutcomes == {WorkerRaises, NoEvents} \cup {LastText(t) : t \in WorkerTexts}

\* Lines 381-393 for one item: the record to append, or the TypeError of
\* result['original_item'] = item on a value that is not a dict.
TypeError == [type |-> "TypeError"]

NoResponseRecord(item) ==
  << <<"original_item", item>>, <<"error", "No response from sub-agent">> >>

ParseFailureRecord(item, final_response) ==
  << <<"original_item", item>>, <<"error", <<"Failed to parse JSON: ", final_response>> >> >>

ItemRecord(item, outcome) ==
  IF outcome.n > 0
  THEN LET final_response == outcome.text
           result == extract_json_from_model_output(final_response)
       IN IF Truthy(result)
          THEN IF result.type = "dict"
               THEN DictSet(result.value, "original_item", item)
               ELSE TypeError
          ELSE ParseFailureRecord(item, final_response)
  ELSE NoResponseRecord(item)

\* ------------------------------------------------------- result aggregation
\* pd.DataFrame(results): the columns are the union of the records' keys in
\* first-seen order; one row per record, a missing key is NaN.
RECURSIVE AddKeys(_, _)
AddKeys(cols, d) ==
  IF d = <<>> THEN cols
  ELSE AddKeys(IF \E i \in 1..Len(cols) : cols[i] = d[1][1] THEN cols
               ELSE Append(cols, d[1][1]), Tail(d))

RECURSIVE Columns(_, _)
Columns(cols, records) ==
  IF records = <<>> THEN cols
  ELSE Columns(AddKeys(cols, records[1]), Tail(records))

RECURSIVE RowOf(_, _)
RowOf(cols, d) ==
  IF cols = <<>> THEN <<>>
  ELSE <<DictGet(d, cols[1], Null)>> \o RowOf(Tail(cols), d)

RECURSIVE RowsOf(_, _)
RowsOf(cols, records) ==
  IF records = <<>> THEN <<>>
  ELSE <<RowOf(cols, records[1])>> \o RowsOf(cols, Tail(records))

DataFrame(records) ==
  LET cols == Columns(<<>>, records)
  IN [columns |-> cols, rows |-> RowsOf(cols, records)]

\* os.path.join("results", f"{output_basename}.csv")
RelativeResultsPath(output_basename) == <<"results", output_basename, ".csv">>

\* ------------------------------------------------------------ sandbox paths
\* An absolute path is the sequence of its components below "/"; a file name
\* with an extension is the pair <<stem, extension>>.
\* SANDBOX_ROOT = abspath(join(dirname(__file__), "sandbox")), line 23.
SANDBOX_ROOT == <<"app", "sandbox">>

\* The caller-supplied names: basenames (basename, output_basename) and
\* paths relative to the sandbox (csv_path), split at "/".
StoreBasenames == {"out", "../../escape", "../../sandbox_x"}
CsvPaths == {"task_lists/out.csv", "../escape.csv", "../sandbox_x.csv"}
DirectoryPaths == {"task_lists/out.csv", "results/out.csv", "../sandbox_x.csv"}
DownloadPaths == {"task_lists/out.csv"}

PathParts(name) ==
  CASE name = "out" -> <<"out">>
    [] name = "../../escape" -> <<"..", "..", "escape">>
    [] name = "../../sandbox_x" -> <<"..", "..", "sandbox_x">>
    [] name = "task_lists/out.csv" -> <<"task_lists", <<"out", ".csv">> >>
    [] name = "results/out.csv" -> <<"results", <<"out", ".csv">> >>
    [] name = "../escape.csv" -> <<"..", <<"escape", ".csv">> >>
    [] name = "../sandbox_x.csv" -> <<"..", <<"sandbox_x", ".csv">> >>

\* f"{basename}.csv": the extension goes on the last component.
WithCsv(parts) ==
  SubSeq(parts, 1, Len(parts) - 1) \o << <<parts[Len(parts)], ".csv">> >>

\* os.path.abspath on an absolute path: ".." drops the component before it
\* (and is dropped itself at "/").
RECURSIVE NormPath(_, _)
NormPath(done, rest) ==
  IF rest = <<>> THEN done
  ELSE IF rest[1] = ".."
       THEN NormPath(IF done = <<>> THEN <<>> ELSE SubSeq(done, 1, Len(done) - 1),
                     Tail(rest))
       ELSE NormPath(Append(done, rest[1]), Tail(rest))

abspath(path) == NormPath(<<>>, path)

\* str.startswith between two path components, as the characters compare.
StemOf(component) == IF component \in Seq({"out", "escape", "sandbox_x", ".csv"})
                     THEN component[1] ELSE component

ComponentStartsWith(component, prefix) ==
  \/ component = prefix
  \/ <<StemOf(component), prefix>> \in {<<"sandbox_x", "sandbox">>}

\* is_within_sandbox, lines 26-29: abs_path.startswith(SANDBOX_ROOT) compares
\* the characters of the two strings, not their components.
is_within_sandbox(path) ==
  LET abs_path == abspath(path)
      n == Len(SANDBOX_ROOT)
  IN /\ Len(abs_path) >= n
     /\ SubSeq(abs_path, 1, n - 1) = SubSeq(SANDBOX_ROOT, 1, n - 1)
     /\ ComponentStartsWith(abs_path[n], SANDBOX_ROOT[n])

\* save_task_list, lines 158-160: os.path.join(task_list_dir, f"{basename}.csv")
TaskListCsvPath(basename_) ==
  SANDBOX_ROOT \o <<"task_lists">> \o WithCsv(PathParts(basename_))

\* load_task_list, line 97.
LoadAbsPath(csv_path) == abspath(SANDBOX_ROOT \o PathParts(csv_path))

\* _run_repetition_loop, lines 406-407: the file to_csv writes.
ResultsPath(output_basename) ==
  abspath(SANDBOX_ROOT \o <<"results">> \o WithCsv(PathParts(output_basename)))

\* pd.DataFrame(strings, columns=["name"]), line 166.
RECURSIVE OneColumnRows(_)
OneColumnRows(strings) ==
  IF strings = <<>> THEN <<>>
  ELSE << <<strings[1]>> >> \o OneColumnRows(Tail(strings))

NameFrame(strings) == [columns |-> <<"name">>, rows |-> OneColumnRows(strings)]

\* df.iloc[:, 0].tolist(), line 108.
RECURSIVE FirstOfRows(_)
FirstOfRows(rows) ==
  IF rows = <<>> THEN <<>>
  ELSE <<rows[1][1]>> \o FirstOfRows(Tail(rows))

FirstColumn(table) == FirstOfRows(table.rows)

\* The disk: absolute path -> the table of the file, or Directory, on the
\* paths that exist.  The parents of an existing path exist as directories.
NoFiles == [p \in {} |-> NoFile]
Directory == [dir |-> TRUE]

IsDirectory(fs, path) == path \in DOMAIN fs /\ fs[path] = Directory

WriteFile(fs, path, table) ==
  [p \in DOMAIN fs \cup {path} |-> IF p = path THEN table ELSE fs[p]]

\* os.makedirs(dir, exist_ok=True), lines 79, 159, 190 and 405: the directory
\* and its missing parents are created; what exists stays.  The sandbox root
\* and the directories above it exist and are not kept in the map.
MakeDirs(fs, dir) ==
  LET Above(k) == k <= Len(SANDBOX_ROOT) /\ \A i \in 1..k : dir[i] = SANDBOX_ROOT[i]
      created == {SubSeq(dir, 1, k) : k \in {j \in 1..Len(dir) : ~Above(j)}}
  IN [p \in DOMAIN fs \cup created |-> IF p \in DOMAIN fs THEN fs[p] ELSE Directory]

\* os.path.dirname
dirname(path) == SubSeq(path, 1, Len(path) - 1)

\* make_directory and download_file, lines 75 and 184.
ToolAbsPath(file_path) == abspath(SANDBOX_ROOT \o PathParts(file_path))

\* What a download stores: the table the downloaded bytes read as.
DownloadedTable == [columns |-> <<"name">>, rows |-> << <<"z">>, <<"y">> >>]

\* A file of 0 bytes, as open(path, "w") leaves it before anything is written.
EmptyTable == [columns |-> <<>>, rows |-> <<>>]

\* How writing a file ends (to_csv, lines 167 and 408; open and copyfileobj,
\* lines 191-192): the content is written; opening raises and the disk is as
\* before; or the file is opened, which creates or empties it, and writing
\* stops: at once, inside the header line after some of its characters, or
\* after the header and some of the rows went out.  Opening a directory
\* always raises.
Written == [end |-> "written", kept |-> 0]
Refused == [end |-> "refused", kept |-> 0]
Emptied == [end |-> "emptied", kept |-> 0]
Partial(k) == [end |-> "partial", kept |-> k]
Torn(n) == [end |-> "torn", kept |-> n]

WriteOutcomes ==
  {Written, Refused, Emptied} \cup {Partial(k) : k \in 0..MaxLen}
    \cup {Torn(n) : n \in 1..MaxTorn}

\* The first n characters of a column name, for the names that head a table.
\* The whole name when it has no more than n characters.
NamePrefix(column, n) ==
  CASE <<column, n>> = <<"name", 1>> -> "n"
    [] <<column, n>> = <<"name", 2>> -> "na"
    [] <<column, n>> = <<"name", 3>> -> "nam"
    [] <<column, n>> = <<"original_item", 1>> -> "o"
    [] <<column, n>> = <<"original_item", 2>> -> "or"
    [] <<column, n>> = <<"original_item", 3>> -> "ori"
    [] OTHER -> column

WriteOutcome(fs, path, write) == IF IsDirectory(fs, path) THEN Refused ELSE write

\* What the file holds after a write that opened it, read as a table: a
\* header line cut after n characters reads as one column of that name.
LeftOnDisk(table, write) ==
  CASE write.end = "written" -> table
    [] write.end = "emptied" -> EmptyTable
    [] write.end = "torn" ->
         IF table.columns = <<>> THEN EmptyTable
         ELSE [columns |-> <<NamePrefix(table.columns[1], write.kept)>>, rows |-> <<>>]
    [] write.end = "partial" ->
         [columns |-> table.columns,
          rows |-> SubSeq(table.rows, 1,
                          IF write.kept < Len(table.rows) THEN write.kept
                          ELSE Len(table.rows))]

WriteResult(fs, path, table, write) ==
  IF WriteOutcome(fs, path, write) = Refused THEN fs
  ELSE WriteFile(fs, path, LeftOnDisk(table, write))

\* How a download ends: requests.get or raise_for_status raises (lines
\* 188-189), or the body starts to arrive and the file is written as above;
\* or the body ends early and copyfileobj returns with what arrived, as it
\* does when the length of the body is not enforced.
GetRaises == [end |-> "get_raises", kept |-> 0]
Short(write) == [end |-> write.end, kept |-> write.kept, short |-> TRUE]

DownloadOutcomes ==
  {GetRaises} \cup WriteOutcomes
    \cup {Short(w) : w \in WriteOutcomes \ {Written, Refused}}

\* The dictionaries the file tools return.
NoReturn == [status |-> "none"]
ErrorReturn(message) == [status |-> "error", error_message |-> message]
SaveReturn(csv_path) == [status |-> "success", csv_path |-> csv_path]
MessageReturn(message) == [status |-> "success", message |-> message]
LoadReturn(first_col_list) ==
  [status |-> "success",
   summary |-> [total_items |-> Len(first_col_list),
                preview |-> SubSeq(first_col_list, 1,
                                   IF Len(first_col_list) < 5 THEN Len(first_col_list) ELSE 5)]]

\* ---------------------------------------------------------- status register
\* tool_context.state: a dictionary, here a function on the keys set so far.
EmptyState == [k \in {} |-> 0]

StateGet(st, k, default) == IF k \in DOMAIN st THEN st[k] ELSE default

StateUpdate(st, upd) ==
  [k \in DOMAIN st \cup DOMAIN upd |-> IF k \in DOMAIN upd THEN upd[k] ELSE st[k]]

\* Lines 447-450: the four keys execute_task_list writes before scheduling.
InitialState(iterator_list) ==
  [k \in {"user:progress", "user:total", "user:elapsed_seconds",
          "user:repetition_task_status"} |->
     CASE k = "user:progress" -> 0
       [] k = "user:total" -> Len(iterator_list)
       [] k = "user:elapsed_seconds" -> 0
       [] k = "user:repetition_task_status" -> "initiated"]

\* Mutant of ProgressUpdate: the per-item update does not write the total.
ProgressUpdateWithoutTotal(i, total_items, elapsed) ==
  [k \in {"user:progress", "user:elapsed_seconds",
          "user:repetition_task_status", "user:results_path"} |->
     CASE k = "user:progress" -> i + 1
       [] k = "user:elapsed_seconds" -> elapsed
       [] k = "user:repetition_task_status" -> "running"
       [] k = "user:results_path" -> ""]

\* Lines 395-401.
ProgressUpdate(i, total_items, elapsed) ==
  [k \in {"user:progress", "user:total", "user:elapsed_seconds",
          "user:repetition_task_status", "user:results_path"} |->
     CASE k = "user:progress" -> i + 1
       [] k = "user:total" -> total_items
       [] k = "user:elapsed_seconds" -> elapsed
       [] k = "user:repetition_task_status" -> "running"
       [] k = "user:results_path" -> ""]

\* Mutant of FinalUpdate: the final update keeps the phase of the loop.
FinalUpdateStillRunning(total_items, elapsed, relative_results_path) ==
  [k \in {"user:progress", "user:total", "user:elapsed_seconds",
          "user:repetition_task_status", "user:results_path"} |->
     CASE k = "user:progress" -> total_items
       [] k = "user:total" -> total_items
       [] k = "user:elapsed_seconds" -> elapsed
       [] k = "user:repetition_task_status" -> "running"
       [] k = "user:results_path" -> relative_results_path]

\* Lines 410-416.
FinalUpdate(total_items, elapsed, relative_results_path) ==
  [k \in {"user:progress", "user:total", "user:elapsed_seconds",
          "user:repetition_task_status", "user:results_path"} |->
     CASE k = "user:progress" -> total_items
       [] k = "user:total" -> total_items
       [] k = "user:elapsed_seconds" -> elapsed
       [] k = "user:repetition_task_status" -> "completed"
       [] k = "user:results_path" -> relative_results_path]

\* check_task_status: what a poll returns for a given register.
check_task_status(st) ==
  [progress |-> StateGet(st, "user:progress", 0),
   total |-> StateGet(st, "user:total", 0),
   elapsed_seconds |-> StateGet(st, "user:elapsed_seconds", 0),
   status |-> StateGet(st, "user:repetition_task_status", "not_started"),
   results_path |-> StateGet(st, "user:results_path", "")]

\* -------------------------------------------------------------------- state
VARIABLES
  state,      \* tool_context.state, shared by every call of the user
  artifact,   \* the saved artifact session_iterator.json: a work list, or none
  outfile,    \* the results directory: basename -> table written, or NoFile
  files,      \* the files on disk: absolute path -> table
  ret,        \* what the latest call of a file tool returned
  loading,    \* the load_task_list calls suspended in save_artifact: the list of each
  pc,         \* per call of execute_task_list: where it or its background task stands
  loaded,     \* what load_artifact gave the call
  work,       \* iterator_list of the run
  basename,   \* output_basename of the run
  idx,        \* number of items of the run whose status update was applied
  results,    \* the results list of the run
  responses,  \* what runner.run gave for each item of the run so far
  sessions    \* sessions alive in the run's InMemorySessionService

vars == <<state, artifact, outfile, files, ret, loading, pc, loaded, work, basename,
          idx, results, responses, sessions>>

Init ==
  /\ state = EmptyState
  /\ artifact = NoArtifact
  /\ outfile = [b \in StoreBasenames |-> NoFile]
  /\ files = NoFiles
  /\ ret = NoReturn
  /\ loading = <<>>
  /\ pc = [r \in Runs |-> "idle"]
  /\ loaded = [r \in Runs |-> NoArtifact]
  /\ work = [r \in Runs |-> <<>>]
  /\ basename = [r \in Runs |-> "out"]
  /\ idx = [r \in Runs |-> 0]
  /\ results = [r \in Runs |-> <<>>]
  /\ responses = [r \in Runs |-> <<>>]
  /\ sessions = [r \in Runs |-> {}]

\* load_task_list, lines 108-121: the first column of the CSV is saved as
\* the artifact and the call waits in save_artifact; or save_artifact raises
\* and the call returns the error of lines 140-145.
LoadTaskListSave(first_col_list, save_ok) ==
  /\ IF save_ok
     THEN /\ Len(loading) < MaxLoading
          /\ artifact' = first_col_list
          /\ loading' = Append(loading, first_col_list)
          /\ ret' = ret
     ELSE /\ ret' = ErrorReturn("save_artifact raised")
          /\ UNCHANGED <<artifact, loading>>
  /\ UNCHANGED <<state, outfile, files, pc, loaded, work, basename, idx, results,
                 responses, sessions>>

\* load_task_list, lines 125-138: the call resumes, stores the filename in
\* the state and returns the summary.
LoadTaskList(call) ==
  /\ call \in 1..Len(loading)
  /\ state' = StateUpdate(state, [k \in {"iterator_filename"} |-> "session_iterator.json"])
  /\ ret' = LoadReturn(loading[call])
  /\ loading' = SubSeq(loading, 1, call - 1) \o SubSeq(loading, call + 1, Len(loading))
  /\ UNCHANGED <<artifact, outfile, files, pc, loaded, work, basename, idx, results,
                 responses, sessions>>

\* execute_task_list, lines 440-441: the call reads the artifact and waits in
\* load_artifact.  Run r is the r-th call.
ExecuteTaskListLoad(r, output_basename) ==
  /\ pc[r] = "idle"
  /\ \A q \in Runs : q < r => pc[q] # "idle"
  /\ loaded' = [loaded EXCEPT ![r] = artifact]
  /\ basename' = [basename EXCEPT ![r] = output_basename]
  /\ pc' = [pc EXCEPT ![r] = "loading"]
  /\ UNCHANGED <<state, artifact, outfile, files, ret, loading, work, idx, results,
                 responses, sessions>>

\* execute_task_list, lines 442-461: the call resumes with what it loaded.
ExecuteTaskList(r) ==
  /\ pc[r] = "loading"
  /\ IF loaded[r] = NoArtifact
     THEN /\ pc' = [pc EXCEPT ![r] = "rejected"]
          /\ UNCHANGED <<state, work>>
     ELSE /\ state' = StateUpdate(state, InitialState(loaded[r]))
          /\ work' = [work EXCEPT ![r] = loaded[r]]
          /\ pc' = [pc EXCEPT ![r] = "loop"]
  /\ UNCHANGED <<artifact, outfile, files, ret, loading, loaded, basename, idx, results,
                 responses, sessions>>

\* Lines 404-417 applied to the register st: the results directory is made,
\* the table is written and the final update applied, or the write raises and
\* nothing more happens.
Aggregate(r, st, records, elapsed, write) ==
  LET results_path == ResultsPath(basename[r])
      outcome == WriteOutcome(files, results_path, write)
  IN /\ outfile' = IF outcome = Refused THEN outfile
                   ELSE [outfile EXCEPT ![basename[r]] = LeftOnDisk(DataFrame(records), write)]
     /\ files' = WriteResult(MakeDirs(files, SANDBOX_ROOT \o <<"results">>), results_path,
                             DataFrame(records), write)
     /\ IF outcome = Written
        THEN /\ state' = StateUpdate(st, FinalUpdate(Len(work[r]), elapsed,
                                                    RelativeResultsPath(basename[r])))
             /\ pc' = [pc EXCEPT ![r] = "done"]
        ELSE /\ state' = st
             /\ pc' = [pc EXCEPT ![r] = "aggregate_raised"]

\* The background task of a run over an empty list: no iteration, lines 404-417.
LoopEmpty(r, elapsed, write) ==
  /\ pc[r] = "loop"
  /\ Len(work[r]) = 0
  /\ Aggregate(r, state, results[r], elapsed, write)
  /\ UNCHANGED <<artifact, ret, loading, loaded, work, basename, idx, results, responses,
                 sessions>>

\* Lines 350-359: the next item's session is created.
LoopCreateSession(r) ==
  /\ pc[r] = "loop"
  /\ idx[r] < Len(work[r])
  /\ sessions' = [sessions EXCEPT ![r] = @ \cup {idx[r] + 1}]
  /\ pc' = [pc EXCEPT ![r] = "run"]
  /\ UNCHANGED <<state, artifact, outfile, files, ret, loading, loaded, work, basename,
                 idx, results, responses>>

\* Lines 360-378 for the current item: the worker runs; when it returns, the
\* session is deleted and the loop waits in delete_session.
LoopInvoke(r, outcome) ==
  /\ pc[r] = "run"
  /\ responses' = [responses EXCEPT ![r] = Append(@, outcome)]
  /\ IF outcome = WorkerRaises
     THEN /\ pc' = [pc EXCEPT ![r] = "worker_raised"]
          /\ sessions' = sessions
     ELSE /\ pc' = [pc EXCEPT ![r] = "record"]
          /\ sessions' = [sessions EXCEPT ![r] = @ \ {idx[r] + 1}]
  /\ UNCHANGED <<state, artifact, outfile, files, ret, loading, loaded, work, basename,
                 idx, results>>

\* Lines 380-402 for the current item, and lines 404-417 after the last one:
\* the loop resumes, appends the record and the register is updated.
LoopRecord(r, elapsed, final_elapsed, write) ==
  /\ pc[r] = "record"
  /\ elapsed <= final_elapsed
  /\ LET item == work[r][idx[r] + 1]
         outcome == responses[r][idx[r] + 1]
         record == ItemRecord(item, outcome)
         st == StateUpdate(state, ProgressUpdate(idx[r], Len(work[r]), elapsed))
     IN IF record = TypeError
        THEN /\ pc' = [pc EXCEPT ![r] = "record_raised"]
             /\ UNCHANGED <<state, outfile, files, idx, results>>
        ELSE /\ results' = [results EXCEPT ![r] = Append(@, record)]
             /\ idx' = [idx EXCEPT ![r] = @ + 1]
             /\ IF idx[r] + 1 < Len(work[r])
                THEN /\ state' = st
                     /\ pc' = [pc EXCEPT ![r] = "loop"]
                     /\ outfile' = outfile
                     /\ files' = files
                ELSE Aggregate(r, st, Append(results[r], record),
                               final_elapsed, write)
  /\ UNCHANGED <<artifact, ret, loading, loaded, work, basename, responses, sessions>>

\* The register specification: every run of the user shares the register.
\* The work lists differ in length and the worker either answers or raises.
RECURSIVE ListOfLength(_)
ListOfLength(n) ==
  IF n = 0 THEN <<>>
  ELSE Append(ListOfLength(n - 1), IF n % 2 = 1 THEN "a" ELSE "b")

RegisterLists == {ListOfLength(n) : n \in 0..MaxLen}
RegisterOutcomes == {WorkerRaises, LastText(<<FenceJson, ObjText, Fence>>)}

Next ==
  \/ \E l \in RegisterLists, ok \in BOOLEAN : LoadTaskListSave(l, ok)
  \/ \E c \in 1..MaxLoading : LoadTaskList(c)
  \/ \E r \in Runs, b \in Basenames : ExecuteTaskListLoad(r, b)
  \/ \E r \in Runs : ExecuteTaskList(r)
  \/ \E r \in Runs, e \in 0..MaxElapsed, w \in WriteOutcomes : LoopEmpty(r, e, w)
  \/ \E r \in Runs : LoopCreateSession(r)
  \/ \E r \in Runs, o \in RegisterOutcomes : LoopInvoke(r, o)
  \/ \E r \in Runs, e1 \in 0..MaxElapsed, e2 \in 0..MaxElapsed, w \in WriteOutcomes :
       LoopRecord(r, e1, e2, w)

Spec == Init /\ [][Next]_vars

\* The loop specification: one run, every work list and every worker outcome.
NextLoop ==
  \/ \E l \in WorkLists, ok \in BOOLEAN : LoadTaskListSave(l, ok)
  \/ \E c \in 1..MaxLoading : LoadTaskList(c)
  \/ \E b \in Basenames : ExecuteTaskListLoad(1, b)
  \/ ExecuteTaskList(1)
  \/ \E e \in 0..MaxElapsed, w \in WriteOutcomes : LoopEmpty(1, e, w)
  \/ LoopCreateSession(1)
  \/ \E o \in WorkerOutcomes : LoopInvoke(1, o)
  \/ \E e1 \in 0..MaxElapsed, e2 \in 0..MaxElapsed, w \in WriteOutcomes :
       LoopRecord(1, e1, e2, w)

SpecLoop == Init /\ [][NextLoop]_vars

\* load_task_list, lines 97-121: the whole first half of the tool, reading
\* the CSV at csv_path.
LoadTaskListFile(csv_path, read_ok, save_ok) ==
  LET abs_path == LoadAbsPath(csv_path)
      Refuse(message) ==
        /\ ret' = ErrorReturn(message)
        /\ UNCHANGED <<state, artifact, outfile, files, loading, pc, loaded, work,
                       basename, idx, results, responses, sessions>>
  IN IF ~is_within_sandbox(abs_path)
     THEN Refuse("CSV path is outside of your sandbox.")
     ELSE IF abs_path \notin DOMAIN files
     THEN Refuse("CSV file does not exist.")
     ELSE IF IsDirectory(files, abs_path)
     THEN Refuse("Is a directory")
     ELSE IF ~read_ok
     THEN Refuse("read_csv raised")
     ELSE IF Len(files[abs_path].columns) = 0
     THEN Refuse("CSV has no columns.")
     ELSE LoadTaskListSave(FirstColumn(files[abs_path]), save_ok)

\* Mutant of SaveTaskList: the existing file is overwritten.
SaveTaskListOverwrites(strings, basename_, outcomes) ==
  LET csv_path == TaskListCsvPath(basename_)
      made == MakeDirs(files, SANDBOX_ROOT \o <<"task_lists">>)
  IN /\ IF ~is_within_sandbox(csv_path)
        THEN /\ ret' = ErrorReturn("Output path is outside of your sandbox.")
             /\ files' = made
        ELSE \E write \in outcomes :
               /\ files' = WriteResult(made, abspath(csv_path), NameFrame(strings), write)
               /\ ret' = IF WriteOutcome(made, abspath(csv_path), write) = Written
                         THEN SaveReturn(csv_path)
                         ELSE ErrorReturn("to_csv raised")
     /\ UNCHANGED <<state, artifact, outfile, loading, pc, loaded, work, basename, idx,
                    results, responses, sessions>>

\* save_task_list, lines 158-172.  outcomes: the ways the write of line 167
\* can end, one of which happens when the call gets that far.
SaveTaskList(strings, basename_, outcomes) ==
  LET csv_path == TaskListCsvPath(basename_)
      made == MakeDirs(files, SANDBOX_ROOT \o <<"task_lists">>)
  IN /\ IF ~is_within_sandbox(csv_path)
        THEN /\ ret' = ErrorReturn("Output path is outside of your sandbox.")
             /\ files' = made
        ELSE IF abspath(csv_path) \in DOMAIN made
        THEN /\ ret' = ErrorReturn("A task list with that filename already exists.")
             /\ files' = made
        ELSE \E write \in outcomes :
               /\ files' = WriteResult(made, abspath(csv_path), NameFrame(strings), write)
               /\ ret' = IF write = Written
                         THEN SaveReturn(csv_path)
                         ELSE ErrorReturn("to_csv raised")
     /\ UNCHANGED <<state, artifact, outfile, loading, pc, loaded, work, basename, idx,
                    results, responses, sessions>>

\* make_directory, lines 75-82: os.makedirs(abs_path, exist_ok=True) raises
\* when a file is at the path.
make_directory(file_path) ==
  LET abs_path == ToolAbsPath(file_path)
  IN /\ IF ~is_within_sandbox(abs_path)
        THEN /\ ret' = ErrorReturn("Path is outside of your sandbox.")
             /\ files' = files
        ELSE IF abs_path \in DOMAIN files /\ ~IsDirectory(files, abs_path)
        THEN /\ ret' = ErrorReturn("File exists")
             /\ files' = MakeDirs(files, dirname(abs_path))
        ELSE /\ files' = MakeDirs(files, abs_path)
             /\ ret' = MessageReturn("Directory created")
     /\ UNCHANGED <<state, artifact, outfile, loading, pc, loaded, work, basename, idx,
                    results, responses, sessions>>

\* download_file, lines 184-195: the parent directory is made and the file
\* at the path is opened for writing with no test of what is there; when the
\* copy raises or the body ends early, the file keeps what was written until
\* then.
download_file(out_file_path, download) ==
  LET abs_path == ToolAbsPath(out_file_path)
      made == MakeDirs(files, dirname(abs_path))
  IN /\ IF ~is_within_sandbox(abs_path)
        THEN /\ ret' = ErrorReturn("Output path is outside of your sandbox.")
             /\ files' = files
        ELSE IF download = GetRaises
        THEN /\ ret' = ErrorReturn("requests.get raised")
             /\ files' = files
        ELSE /\ files' = WriteResult(made, abs_path, DownloadedTable, download)
             /\ ret' = CASE WriteOutcome(made, abs_path, download) = Refused ->
                              ErrorReturn("open raised")
                         [] WriteOutcome(made, abs_path, download) \in WriteOutcomes \ {Written} ->
                              ErrorReturn("copyfileobj raised")
                         [] OTHER -> MessageReturn("File downloaded")
     /\ UNCHANGED <<state, artifact, outfile, loading, pc, loaded, work, basename, idx,
                    results, responses, sessions>>

\* The store specification: lists are saved and loaded under caller-supplied
\* names, directories are made, files are downloaded, and one run writes its
\* results under a caller-supplied basename.  Every tool acts under every
\* name; the lists saved are of full length, a write is done, refused or
\* stops at once, and a download also stops inside the header line.  The
\* file-tool specification below draws every outcome.
StoreLists == {ListOfLength(MaxLen)}
StoreWrites == {Written, Refused, Emptied}
StoreDownloads == {GetRaises, Written, Emptied, Torn(MaxTorn), Short(Torn(MaxTorn))}

NextStore ==
  \/ \E l \in StoreLists, b \in StoreBasenames : SaveTaskList(l, b, StoreWrites)
  \/ \E c \in CsvPaths, rok \in BOOLEAN, sok \in BOOLEAN : LoadTaskListFile(c, rok, sok)
  \/ \E c \in 1..MaxLoading : LoadTaskList(c)
  \/ \E d \in DirectoryPaths : make_directory(d)
  \/ \E d \in DownloadPaths, o \in StoreDownloads : download_file(d, o)
  \/ \E b \in StoreBasenames : ExecuteTaskListLoad(1, b)
  \/ ExecuteTaskList(1)
  \/ \E e \in 0..MaxElapsed, w \in StoreWrites : LoopEmpty(1, e, w)
  \/ LoopCreateSession(1)
  \/ \E o \in RegisterOutcomes : LoopInvoke(1, o)
  \/ \E e1 \in 0..MaxElapsed, e2 \in 0..MaxElapsed, w \in StoreWrites :
       LoopRecord(1, e1, e2, w)

SpecStore == Init /\ [][NextStore]_vars

\* The file-tool specification: the tools that create, write and read files
\* under caller-supplied names, with no run.
NextFiles ==
  \/ \E l \in RegisterLists, b \in StoreBasenames : SaveTaskList(l, b, WriteOutcomes)
  \/ \E c \in CsvPaths, rok \in BOOLEAN, sok \in BOOLEAN : LoadTaskListFile(c, rok, sok)
  \/ \E c \in 1..MaxLoading : LoadTaskList(c)
  \/ \E d \in DirectoryPaths : make_directory(d)
  \/ \E d \in DownloadPaths, o \in DownloadOutcomes : download_file(d, o)

SpecFiles == Init /\ [][NextFiles]_vars

\* ------------------------------------------------------------------ claims
\* What a check_task_status call returns in the current state.
Poll == check_task_status(state)

PhaseRank(status) ==
  CASE status = "not_started" -> 0
    [] status = "initiated" -> 1
    [] status = "running" -> 2
    [] status = "completed" -> 3

InFlight(r) == pc[r] \in {"loop", "run", "record"}

\* C1: the step in which the background loop of a run over a non-empty list
\* yields its final update leaves a register for which check_task_status
\* reports status completed, progress = total = the number of items of the
\* list, and results_path = the path of the output that was written.
C1_FinishedRunReportsCompleted ==
  [][\A r \in Runs :
       (pc[r] # "done" /\ pc'[r] = "done" /\ Len(work[r]) > 0) =>
         /\ Poll'.status = "completed"
         /\ Poll'.progress = Len(work[r])
         /\ Poll'.total = Len(work[r])
         /\ Poll'.results_path = RelativeResultsPath(basename[r])
         /\ outfile'[basename[r]] # NoFile]_vars

C1_Witness ==
  \E r \in Runs :
    /\ pc[r] = "done"
    /\ Len(work[r]) = MaxLen
    /\ Poll.status = "completed"
    /\ Poll.progress = MaxLen
    /\ Poll.total = MaxLen
    /\ Poll.results_path = RelativeResultsPath(basename[r])

\* C2: between two successive polls of the register the phase never moves
\* backward in the order not_started < initiated < running < completed and
\* the progress never decreases, whatever execute_task_list calls and loop
\* steps happen in between.
C2_PhaseAndProgressNeverRegress ==
  [][/\ PhaseRank(Poll'.status) >= PhaseRank(Poll.status)
     /\ Poll'.progress >= Poll.progress]_vars

\* C3: in every reachable state of the register, under any interleaving of
\* the started runs, progress and total are non-negative integers and
\* progress <= total.
C3_ProgressAtMostTotal ==
  /\ Poll.progress \in Nat
  /\ Poll.total \in Nat
  /\ Poll.progress <= Poll.total

\* Two runs over lists of different lengths are in flight and the register
\* holds the progress of an item update.
C3_Witness ==
  \E r1 \in Runs, r2 \in Runs :
    /\ InFlight(r1) /\ InFlight(r2)
    /\ Len(work[r1]) # Len(work[r2])
    /\ idx[r1] >= 1
    /\ Poll.status = "running"
    /\ Poll.progress >= 1

\* C4: whenever a run has been acknowledged by execute_task_list and its
\* first item is not processed yet (no status update of the run was applied),
\* a check_task_status poll returns status initiated, progress 0 and total =
\* the length of the list the run loaded.
C4_PollBeforeFirstItem ==
  \A r \in Runs :
    (InFlight(r) /\ idx[r] = 0) =>
      /\ Poll.status = "initiated"
      /\ Poll.progress = 0
      /\ Poll.total = Len(work[r])

\* The number of items of the run whose worker answer the loop has gone on to
\* handle (the latest answer is not handled while the loop waits in
\* delete_session).
Handled(r) == IF pc[r] = "record" THEN Len(responses[r]) - 1 ELSE Len(responses[r])

WorkerFailed(outcome) ==
  \/ outcome = WorkerRaises
  \/ outcome.n = 0
  \/ JsonLoads(Strip(RemoveFences(outcome.text))).type # "dict"

C5_ItemFailureNeverAborts ==
  \A r \in Runs :
    /\ pc[r] \notin {"worker_raised", "record_raised"}
    /\ \A k \in 1..Handled(r) :
         WorkerFailed(responses[r][k]) =>
           /\ Len(results[r]) >= k
           /\ DictGet(results[r][k], "original_item", Null) = work[r][k]
           /\ "error" \in DictKeys(results[r][k])

\* C6: at every point of a run the results list holds one record per item
\* whose status update was applied, in list order, the j-th record carrying
\* original_item = the j-th item; the register of the run's only writer
\* shows that count as progress; and the table written at the end has one
\* row per item of the list, in list order.
ColumnIndex(table, name) ==
  CHOOSE i \in 1..Len(table.columns) : table.columns[i] = name

C6_OneRecordPerItemInOrder ==
  \A r \in Runs :
    /\ Len(results[r]) = idx[r]
    /\ idx[r] <= Len(work[r])
    /\ \A j \in 1..Len(results[r]) :
         DictGet(results[r][j], "original_item", Null) = work[r][j]
    /\ (InFlight(r) /\ idx[r] > 0) => Poll.progress = Len(results[r])
    /\ pc[r] = "done" =>
         LET table == outfile[basename[r]]
         IN /\ table # NoFile
            /\ Len(table.rows) = Len(work[r])
            /\ \A j \in 1..Len(work[r]) :
                 table.rows[j][ColumnIndex(table, "original_item")] = work[r][j]

\* A finished run over a list holding the same item twice, whose worker
\* answered with a record that has its own original_item field.
C6_Witness ==
  \E r \in Runs :
    /\ pc[r] = "done"
    /\ work[r] = <<"a", "a">>
    /\ Len(outfile[basename[r]].rows) = 2
    /\ \E k \in 1..2 : responses[r][k] = LastText(<<Blank, ObjWithOriginText, Blank>>)

\* A finished run over a list of two distinct items, in an order that is not
\* the sorted one.
C6_WitnessOrder ==
  \E r \in Runs :
    /\ pc[r] = "done"
    /\ work[r] = <<"b", "a">>
    /\ Len(results[r]) = 2

\* C7: in every reachable state of the register results_path is non-empty
\* only when the status is completed; in particular the register that
\* execute_task_list leaves behind has no results_path.
C7_ResultsPathOnlyWhenCompleted ==
  Poll.results_path # "" => Poll.status = "completed"

\* C8: for each item the worker was invoked for without raising, the loop
\* appends a record, which is the parsed record plus original_item when the
\* final text parses as a structured record with at least one field,
\* original_item plus an error holding the raw text when it does not, and
\* original_item plus the no-response marker when the worker produced no
\* event.
ClaimedRecord(item, outcome) ==
  IF outcome.n = 0 THEN NoResponseRecord(item)
  ELSE LET parsed == JsonLoads(Strip(RemoveFences(outcome.text)))
       IN IF parsed.type = "dict" /\ parsed.value # EmptyDict
          THEN DictSet(parsed.value, "original_item", item)
          ELSE ParseFailureRecord(item, outcome.text)

C8_RecordFollowsWorkerOutput ==
  \A r \in Runs :
    \A k \in 1..Handled(r) :
      responses[r][k] # WorkerRaises =>
        /\ Len(results[r]) >= k
        /\ results[r][k] = ClaimedRecord(work[r][k], responses[r][k])

\* C9: once writing the aggregate output has failed for a run that processed
\* its last item, every check_task_status poll returns status running with an
\* empty results_path, for ever.
C9_FailedRunPollsRunning ==
  \A r \in Runs :
    (pc[r] = "aggregate_raised" /\ Len(work[r]) > 0) =>
      /\ Poll.status = "running"
      /\ Poll.results_path = ""

\* C10: at no instant are two background loops in flight on the register.
C10_SingleWriter ==
  Cardinality({r \in Runs : InFlight(r)}) <= 1

\* C13: each item's invocation has a session of its own, and whenever the
\* loop of a run is between items or has stopped (finished or died), no
\* session created by the run still exists.
C13_NoSessionOutlivesItsItem ==
  \A r \in Runs :
    /\ pc[r] = "run" => sessions[r] = {idx[r] + 1}
    /\ pc[r] # "run" => sessions[r] = {}

\* The path lies in the tree below the sandbox root.
WithinRoot(path) ==
  /\ Len(path) >= Len(SANDBOX_ROOT)
  /\ SubSeq(path, 1, Len(SANDBOX_ROOT)) = SANDBOX_ROOT

\* C11: every list-save, list-load and result-write is confined to the
\* sandbox root: no list or table is ever stored outside it, and a
\* load_task_list call whose resolved path lies outside it returns an error
\* without reading the file.
C11_ConfinedToSandbox ==
  [][/\ \A p \in DOMAIN files' : ~IsDirectory(files', p) => WithinRoot(p)
     /\ \A c \in CsvPaths, rok \in BOOLEAN, sok \in BOOLEAN :
          (LoadTaskListFile(c, rok, sok) /\ ~WithinRoot(LoadAbsPath(c))) =>
            /\ ret'.status = "error"
            /\ artifact' = artifact]_vars

\* C12: a save_task_list call leaves everything that exists on disk as it is
\* and creates nothing but directories when something already exists at the
\* location of its basename; it then returns an error (the already-exists
\* error whenever the location passed the sandbox check).  So what is stored
\* under a basename stays the content of the first successful save, whatever
\* save calls follow.  Stated for every basename: a step does all that, or
\* it is not a save_task_list call with that basename.
C12_SaveNeverOverwrites ==
  [][\A b \in StoreBasenames :
       \/ /\ \A p \in DOMAIN files : p \in DOMAIN files' /\ files'[p] = files[p]
          /\ abspath(TaskListCsvPath(b)) \in DOMAIN files =>
               /\ ret'.status = "error"
               /\ \A p \in DOMAIN files' \ DOMAIN files : files'[p] = Directory
               /\ is_within_sandbox(TaskListCsvPath(b)) =>
                    ret' = ErrorReturn("A task list with that filename already exists.")
       \/ ~\E l \in RegisterLists : SaveTaskList(l, b, WriteOutcomes)]_vars

\* A list of full length is stored under task_lists/out.csv and the latest
\* save call was refused because it exists.
C12_Witness ==
  LET path == SANDBOX_ROOT \o <<"task_lists", <<"out", ".csv">> >>
  IN /\ path \in DOMAIN files
     /\ files[path] = NameFrame(ListOfLength(MaxLen))
     /\ ret = ErrorReturn("A task list with that filename already exists.")

====
